---- MODULE Spec2Model ----
(***************************************************************************)
(* The Sile file abstraction of src/sids/io/sile.py: a handle with a path, *)
(* a declared mode and comment prefixes, opened and closed by __enter__    *)
(* and __exit__, and scanned line by line with readline, step_to and       *)
(* step_either.  Strings are sequences of one-character strings, so that   *)
(* find, lower, startswith and endswith are computed, not assumed.         *)
(***************************************************************************)
EXTENDS Integers, Sequences, FiniteSets, TLC

VARIABLES py, file, mode, disk, fh, depth, nopen, pending, caller, ret, call,
          nc, ncret, hs, viz, vret

vars == <<py, file, mode, disk, fh, depth, nopen, pending, caller, ret, call,
          nc, ncret, hs, viz, vret>>

(* ---------------------------------------------------------------- bounds *)

\* longest file (in lines) the scanning specification starts from
MaxLines == 3

\* deepest nesting of `with sile:` blocks on the one handle
MaxDepth == 2

\* most file objects open at once (the one in fh and those no longer referenced)
MaxOpen == 2

(* --------------------------------------------------------------- strings *)

Empty == << >>

\* None, and every other falsy mode argument of __init__
None == Empty

\* str.lower() on one character of the alphabet in use
LowerChar(c) == IF c = "A" THEN "a" ELSE IF c = "B" THEN "b" ELSE c

\* str.lower()
Lower(s) == [i \in DOMAIN s |-> LowerChar(s[i])]

\* str.find(key): the lowest index at which key occurs in l, -1 when none
Find(l, key) ==
  LET hits == {i \in 0..(Len(l) - Len(key)) : SubSeq(l, i + 1, i + Len(key)) = key}
  IN  IF hits = {} THEN -1 ELSE CHOOSE i \in hits : \A j \in hits : i <= j

\* str.startswith(prefix)
StartsWith(l, prefix) ==
  Len(l) >= Len(prefix) /\ SubSeq(l, 1, Len(prefix)) = prefix

\* str.endswith(suffix)
EndsWith(s, suffix) ==
  Len(s) >= Len(suffix) /\ SubSeq(s, Len(s) - Len(suffix) + 1, Len(s)) = suffix

\* `c in s` for strings
In(c, s) == Find(s, c) >= 0

(* ------------------------------------------------------- the environment *)

PathDat == <<"f", ".", "d", "a", "t">>
PathGz  == <<"f", ".", "g", "z">>
PathFgz == <<"f", "g", "z">>

Paths == {PathDat, PathGz, PathFgz}

ModeR == <<"r">>
ModeW == <<"w">>
ModeA == <<"a">>

Modes == {ModeR, ModeW, ModeA}

LComment == <<"#", "a", "\n">>
LAB      == <<"a", "b", "\n">>
LUpper   == <<"B", "\n">>
LBlank   == <<"\n">>

LinePool == {LComment, LAB, LUpper, LBlank}

\* every file of at most n lines of the pool
Contents(n) == UNION {[1..k -> LinePool] : k \in 0..n}

Absent == [exists |-> FALSE, lines |-> Empty]

OnDisk(lines) == [exists |-> TRUE, lines |-> lines]

\* keyword arguments: a single string or a list of candidate strings
Str(k)   == [isList |-> FALSE, v |-> k]
List(ks) == [isList |-> TRUE, v |-> ks]

KeyA == <<"a">>
KeyB == <<"b">>
KeyUpperB == <<"B">>

\* the calls of step_to: <<keyword, case>>
StepToArgs ==
  {<<Str(KeyA), TRUE>>, <<Str(KeyB), TRUE>>, <<Str(KeyUpperB), TRUE>>,
   <<Str(KeyUpperB), FALSE>>, <<Str(Empty), TRUE>>,
   <<List(<<KeyA, KeyUpperB>>), TRUE>>, <<List(<<KeyUpperB, KeyA>>), TRUE>>,
   <<List(<<KeyUpperB, KeyUpperB>>), FALSE>>}

\* the calls of step_either: <<keywords, case>>
StepEitherArgs ==
  {<<<<Str(KeyA), Str(KeyUpperB), Str(KeyB)>>, TRUE>>,
   <<<<Str(KeyUpperB), Str(KeyB), Str(KeyA)>>, TRUE>>,
   <<<<List(<<KeyUpperB, KeyB>>), Str(KeyA)>>, TRUE>>,
   <<<<Str(KeyUpperB), Str(KeyA)>>, FALSE>>}

NoFh == [open |-> FALSE, gz |-> FALSE, mode |-> Empty, pos |-> 0]

NoRet ==
  [op |-> "init", after |-> "", args |-> << >>, pos0 |-> 0, val |-> << >>,
   exc |-> "none"]

\* the plotting modules are not in use
NoViz == [module |-> "none"]

\* no second handle
NoSiles == [sile |-> << >>]

\* no call of the handle is in progress
NoCall == [op |-> "none"]

\* the interpreters the module runs on: Python 2 and Python 3
Pythons == {2, 3}

\* a line read from a file opened in binary mode under Python 3: bytes, which
\* are equal to no str
Bytes(l) == <<"bytes">> \o l

(* ------------------------------------------------------------------ Sile *)

\* Sile._comment as set by Sile.__setup
comment == << <<"#">> >>

\* an __init__ that keeps the mode argument as it is given
InitModeNoDefault(m) == m

\* Sile.__init__: the declared mode, 'r' unless a mode is given
InitMode(m) == IF m # None THEN m ELSE ModeR

\* _help.starts_with_list: l begins with one of the prefixes
starts_with_list(l, prefixes) ==
  \E i \in DOMAIN prefixes : StartsWith(l, prefixes[i])

\* fh.readline() of the open file object: the next line and the new
\* position, '' at the end of the stream
FhReadline(lines, pos) ==
  IF pos < Len(lines) THEN <<lines[pos + 1], pos + 1>> ELSE <<Empty, pos>>

\* a comment loop that looks for a further line before it reads one, and so
\* hands back a comment line that ends the stream
SkipCommentsStopAtEnd(lines, r) ==
  LET rest == {i \in r[2]..Len(lines) :
                 i = Len(lines) \/ ~starts_with_list(lines[i], comment)}
  IN  IF starts_with_list(r[1], comment)
      THEN <<lines[CHOOSE i \in rest : \A j \in rest : i <= j],
             CHOOSE i \in rest : \A j \in rest : i <= j>>
      ELSE r

RECURSIVE SkipComments(_, _)
SkipComments(lines, r) ==
  IF starts_with_list(r[1], comment)
  THEN SkipComments(lines, FhReadline(lines, r[2]))
  ELSE r

\* a readline that skips one comment line only (`if` for `while`)
readline_skips_once(lines, pos, cmt) ==
  LET r == FhReadline(lines, pos)
  IN  IF ~cmt /\ starts_with_list(r[1], comment) THEN FhReadline(lines, r[2]) ELSE r

\* Sile.readline: <<line, new position>>
readline(lines, pos, cmt) ==
  LET r == FhReadline(lines, pos)
  IN  IF cmt THEN r ELSE SkipComments(lines, r)

RECURSIVE OrFind(_, _, _, _)
OrFind(l, keys, i, found) ==
  IF i > Len(keys) THEN found
  ELSE OrFind(l, keys, i + 1, found \/ (Find(l, keys[i]) >= 0))

\* a line_has_key that takes the index find returns for a truth value,
\* and so misses a keyword at the start of the line
line_has_key_truthy(line, keyword, case) ==
  LET l == IF ~case THEN Lower(line) ELSE line
      hit(k) == Find(l, IF ~case THEN Lower(k) ELSE k) > 0
  IN  IF keyword.isList THEN \E i \in DOMAIN keyword.v : hit(keyword.v[i])
      ELSE hit(keyword.v)

\* a line_has_key whose loop assigns found instead of or-ing into it, so that
\* the last candidate of a list decides
line_has_key_last_key(line, keyword, case) ==
  LET l == IF ~case THEN Lower(line) ELSE line
      hit(k) == Find(l, IF ~case THEN Lower(k) ELSE k) >= 0
  IN  IF keyword.isList
      THEN Len(keyword.v) > 0 /\ hit(keyword.v[Len(keyword.v)])
      ELSE hit(keyword.v)

\* a line_has_key that lower-cases the line but not the keyword
line_has_key_lower_line_only(line, keyword, case) ==
  LET l == IF ~case THEN Lower(line) ELSE line
  IN  IF keyword.isList THEN \E i \in DOMAIN keyword.v : Find(l, keyword.v[i]) >= 0
      ELSE Find(l, keyword.v) >= 0

\* a line_has_key in which an empty candidate matches no line
line_has_key_nonempty(line, keyword, case) ==
  LET l == IF ~case THEN Lower(line) ELSE line
      hit(k) == k # Empty /\ Find(l, IF ~case THEN Lower(k) ELSE k) >= 0
  IN  IF keyword.isList THEN \E i \in DOMAIN keyword.v : hit(keyword.v[i])
      ELSE hit(keyword.v)

\* Sile.line_has_key
line_has_key(line, keyword, case) ==
  IF keyword.isList
  THEN LET keys == IF ~case THEN [i \in DOMAIN keyword.v |-> Lower(keyword.v[i])]
                   ELSE keyword.v
           l == IF ~case THEN Lower(line) ELSE line
       IN  OrFind(l, keys, 1, FALSE)
  ELSE LET key == IF ~case THEN Lower(keyword.v) ELSE keyword.v
           l == IF ~case THEN Lower(line) ELSE line
       IN  Find(l, key) >= 0

RECURSIVE StepToLoop(_, _, _, _)
\* the while loop of step_to: the returned tuple and the new position
StepToLoop(lines, pos, keyword, case) ==
  LET r == readline(lines, pos, FALSE)
  IN  IF r[1] = Empty THEN [val |-> <<FALSE, Empty>>, pos |-> r[2]]
      ELSE IF line_has_key(r[1], keyword, case)
           THEN [val |-> <<TRUE, r[1]>>, pos |-> r[2]]
           ELSE StepToLoop(lines, r[2], keyword, case)

\* a step_to that searches from the start of the file on every call
step_to_rewind(lines, pos, keyword, case) == StepToLoop(lines, 0, keyword, case)

\* Sile.step_to, reading on from the position of the file object
step_to(lines, pos, keyword, case) == StepToLoop(lines, pos, keyword, case)

\* the for loop of step_either without its break: the last matching index
FirstKeyNoBreak(l, keywords, case, i) ==
  LET hits == {j \in i..Len(keywords) : line_has_key(l, keywords[j], case)}
  IN  IF hits = {} THEN -1 ELSE (CHOOSE j \in hits : \A k \in hits : k <= j) - 1

RECURSIVE FirstKey(_, _, _, _)
\* the for loop of step_either: the first index whose pattern matches l, -1 if none
FirstKey(l, keywords, case, i) ==
  IF i > Len(keywords) THEN -1
  ELSE IF line_has_key(l, keywords[i], case) THEN i - 1
       ELSE FirstKey(l, keywords, case, i + 1)

RECURSIVE StepEitherLoop(_, _, _, _)
\* the while loop of step_either: the returned tuple and the new position
StepEitherLoop(lines, pos, keywords, case) ==
  LET r == readline(lines, pos, FALSE)
      j == FirstKey(r[1], keywords, case, 1)
  IN  IF r[1] = Empty THEN [val |-> <<FALSE, Empty>>, pos |-> r[2]]
      ELSE IF j >= 0
           THEN [val |-> <<TRUE, j, r[1]>>, pos |-> r[2]]
           ELSE StepEitherLoop(lines, r[2], keywords, case)

\* Sile.step_either, reading on from the position of the file object
step_either(lines, pos, keywords, case) == StepEitherLoop(lines, pos, keywords, case)

\* sile_raise_write with the append mode forgotten
sile_raise_write_no_append(m) == ~In(<<"w">>, m)

\* sile_raise_write raises SileError
sile_raise_write(m) == ~(In(<<"w">>, m) \/ In(<<"a">>, m))

\* sile_raise_read raises SileError
sile_raise_read(m) == ~(In(<<"r">>, m) \/ In(<<"a">>, m))

\* the mode __enter__ opens the file with: gzip.open's default for a gz path
OpenMode == IF EndsWith(file, <<"g", "z">>) THEN <<"r", "b">> ELSE mode

\* a file object opened with mode m can be read
Readable(m) == In(<<"r">>, m) \/ In(<<"+">>, m)

\* an __exit__ that returns a true value, which suppresses the exception
ExitReturnTrue == TRUE

\* Sile.__exit__ returns False
ExitReturn == FALSE

(* --------------------------------------------------------------- actions *)

\* the outcome of a call; for __enter__, `after` is the call that preceded it
Result(op, args, val, exc) ==
  [op |-> op, after |-> IF op = "__enter__" THEN ret.op ELSE "",
   args |-> args, pos0 |-> fh.pos, val |-> val, exc |-> exc]

\* an exception leaves the operation: inside a with block it is in flight
\* towards __exit__, outside it reaches the caller at once
Raises(exc) ==
  IF depth > 0
  THEN pending' = exc /\ caller' = "none"
  ELSE pending' = "none" /\ caller' = exc

Returns == pending' = "none" /\ caller' = "none"

Outcome(exc) == IF exc = "none" THEN Returns ELSE Raises(exc)

\* Sile.__enter__
Enter ==
  /\ pending = "none"
  /\ depth < MaxDepth
  /\ nopen < MaxOpen
  /\ LET gz == EndsWith(file, <<"g", "z">>)
         missing == ~disk.exists /\ (gz \/ In(<<"r">>, mode))
     IN  IF missing
         THEN /\ Raises("IOError")
              /\ ret' = Result("__enter__", << >>, << >>, "IOError")
              /\ UNCHANGED <<fh, depth, nopen, disk>>
         ELSE /\ fh' = [open |-> TRUE, gz |-> gz, mode |-> OpenMode, pos |-> 0]
              /\ depth' = depth + 1
              /\ nopen' = nopen + 1
              /\ disk' = IF ~gz /\ (In(<<"w">>, mode) \/ ~disk.exists)
                         THEN OnDisk(Empty) ELSE disk
              /\ Returns
              /\ ret' = Result("__enter__", << >>, << >>, "none")
  /\ UNCHANGED <<py, hs, viz, vret, call, nc, ncret, file, mode>>

\* the body of Sile.__exit__ as the with statement runs it when its block is
\* left: `closes` says whether fh.close() and del fh are reached, `returns`
\* is the value returned
ExitWith(closes, returns) ==
  /\ depth > 0
  /\ LET exc == IF fh.open \/ ~closes THEN "none" ELSE "AttributeError"
         out == IF exc # "none" THEN exc
                ELSE IF pending # "none" /\ ~returns THEN pending
                ELSE "none"
     IN  /\ fh' = IF closes THEN NoFh ELSE fh
         /\ nopen' = IF fh.open /\ closes THEN nopen - 1 ELSE nopen
         /\ depth' = depth - 1
         /\ IF depth' > 0
            THEN pending' = out /\ caller' = "none"
            ELSE pending' = "none" /\ caller' = out
         /\ ret' = Result("__exit__", <<pending>>, <<returns>>, exc)
  /\ UNCHANGED <<py, hs, viz, vret, call, nc, ncret, file, mode, disk>>

\* an __exit__ that releases the file only when the block ended normally
ExitOnlyOnSuccess == ExitWith(pending = "none", ExitReturn)

\* Sile.__exit__: close and delete fh whatever (type, value, traceback) are
\* an __exit__ that returns without fh.close() and del self.fh
ExitKeepsFh == ExitWith(FALSE, ExitReturn)

Exit == ExitWith(TRUE, ExitReturn)

\* the failure of a read on the handle: there is no fh, or it is not readable
ReadFailure ==
  IF ~fh.open THEN "AttributeError"
  ELSE IF ~Readable(fh.mode) THEN "IOError"
  ELSE "none"

\* fh.readline() gives bytes: the file was opened in binary mode (gzip.open's
\* default) and the interpreter tells bytes from str
YieldsBytes == py = 3 /\ In(<<"b">>, fh.mode)

\* the comment test and the keyword search on a bytes line: a TypeError
BytesFailure == IF YieldsBytes THEN "TypeError" ELSE "none"

\* Sile.readline
Readline ==
  /\ pending = "none"
  /\ \E cmt \in BOOLEAN :
       LET first == FhReadline(disk.lines, fh.pos)
           exc == IF ReadFailure # "none" THEN ReadFailure
                  ELSE IF ~cmt THEN BytesFailure
                  ELSE "none"
           r == IF YieldsBytes THEN first ELSE readline(disk.lines, fh.pos, cmt)
       IN  /\ Outcome(exc)
           /\ fh' = IF ReadFailure = "none" THEN [fh EXCEPT !.pos = r[2]] ELSE fh
           /\ ret' = Result("readline", <<cmt>>,
                            IF exc # "none" THEN << >>
                            ELSE IF YieldsBytes THEN Bytes(r[1])
                            ELSE r[1], exc)
  /\ UNCHANGED <<py, hs, viz, vret, call, nc, ncret, file, mode, disk, depth, nopen>>

\* Sile.readline when the read of the open file fails in the platform
ReadlineIOError ==
  /\ pending = "none"
  /\ ReadFailure = "none"
  /\ Raises("IOError")
  /\ ret' = Result("readline", <<FALSE>>, << >>, "IOError")
  /\ UNCHANGED <<py, hs, viz, vret, call, nc, ncret, file, mode, disk, fh, depth, nopen>>

\* Sile.step_to
StepTo ==
  /\ pending = "none"
  /\ \E a \in StepToArgs :
       LET keyword == a[1]
           case == a[2]
           exc == IF ReadFailure # "none" THEN ReadFailure ELSE BytesFailure
           r == step_to(disk.lines, fh.pos, keyword, case)
       IN  /\ Outcome(exc)
           /\ fh' = IF exc = "none" THEN [fh EXCEPT !.pos = r.pos]
                    ELSE IF ReadFailure = "none"
                         THEN [fh EXCEPT !.pos = FhReadline(disk.lines, fh.pos)[2]]
                    ELSE fh
           /\ ret' = Result("step_to", <<keyword, case>>,
                            IF exc = "none" THEN r.val ELSE << >>, exc)
  /\ UNCHANGED <<py, hs, viz, vret, call, nc, ncret, file, mode, disk, depth, nopen>>

\* Sile.step_either
StepEither ==
  /\ pending = "none"
  /\ \E a \in StepEitherArgs :
       LET keywords == a[1]
           case == a[2]
           exc == IF ReadFailure # "none" THEN ReadFailure ELSE BytesFailure
           r == step_either(disk.lines, fh.pos, keywords, case)
       IN  /\ Outcome(exc)
           /\ fh' = IF exc = "none" THEN [fh EXCEPT !.pos = r.pos]
                    ELSE IF ReadFailure = "none"
                         THEN [fh EXCEPT !.pos = FhReadline(disk.lines, fh.pos)[2]]
                    ELSE fh
           /\ ret' = Result("step_either", <<keywords, case>>,
                            IF exc = "none" THEN r.val ELSE << >>, exc)
  /\ UNCHANGED <<py, hs, viz, vret, call, nc, ncret, file, mode, disk, depth, nopen>>

\* sile_raise_write(sile)
SileRaiseWrite ==
  /\ pending = "none"
  /\ LET exc == IF sile_raise_write(mode) THEN "SileError" ELSE "none"
     IN  /\ Outcome(exc)
         /\ ret' = Result("sile_raise_write", << >>, << >>, exc)
  /\ UNCHANGED <<py, hs, viz, vret, call, nc, ncret, file, mode, disk, fh, depth, nopen>>

\* sile_raise_read(sile)
SileRaiseRead ==
  /\ pending = "none"
  /\ LET exc == IF sile_raise_read(mode) THEN "SileError" ELSE "none"
     IN  /\ Outcome(exc)
         /\ ret' = Result("sile_raise_read", << >>, << >>, exc)
  /\ UNCHANGED <<py, hs, viz, vret, call, nc, ncret, file, mode, disk, fh, depth, nopen>>

(* ------------------------------------------- the loops, statement by statement *)

\* the longest file the loops are run on
MaxLoopLines == 2

\* the calls that loop: <<operation, arguments>>
LoopCalls ==
  {<<"readline", <<FALSE>>>>, <<"readline", <<TRUE>>>>,
   <<"step_to", <<Str(KeyA), TRUE>>>>,
   <<"step_to", <<List(<<KeyUpperB, KeyUpperB>>), FALSE>>>>,
   <<"step_either", <<<<Str(KeyUpperB), Str(KeyA)>>, FALSE>>>>}

\* the call is entered: its first statement is a read of the next line
CallBegin ==
  /\ call = NoCall
  /\ pending = "none"
  /\ \E c \in LoopCalls :
       call' = [op |-> c[1], args |-> c[2], pc |-> "read", l |-> Empty, pos0 |-> fh.pos]
  /\ UNCHANGED <<py, hs, viz, vret, nc, ncret, file, mode, disk, fh, depth, nopen, pending, caller, ret>>

\* the call returns val or raises exc
Finish(val, exc) ==
  /\ call' = NoCall
  /\ Outcome(exc)
  /\ ret' = [op |-> call.op, after |-> "", args |-> call.args, pos0 |-> call.pos0,
             val |-> val, exc |-> exc]

\* l = self.fh.readline() (lines 102, 105); `advance` says whether the read
\* moves the position of the file object
ReadStepWith(advance) ==
  /\ call # NoCall
  /\ call.pc = "read"
  /\ \E oserror \in BOOLEAN :
       IF ReadFailure # "none" \/ oserror
       THEN /\ Finish(<< >>, IF ReadFailure # "none" THEN ReadFailure ELSE "IOError")
            /\ UNCHANGED fh
       ELSE LET r == FhReadline(disk.lines, fh.pos)
            IN  /\ fh' = IF advance THEN [fh EXCEPT !.pos = r[2]] ELSE fh
                /\ call' = [call EXCEPT !.pc = "skip", !.l = r[1]]
                /\ UNCHANGED <<pending, caller, ret>>
  /\ UNCHANGED <<py, hs, viz, vret, nc, ncret, file, mode, disk, depth, nopen>>

\* a read that leaves the position where it was
ReadStepStuck == ReadStepWith(FALSE)

ReadStep == ReadStepWith(TRUE)

\* readline after a read: if comment: return l; the test of the while loop
\* (lines 103-106)
SkipStep ==
  /\ call # NoCall
  /\ call.pc = "skip"
  /\ IF call.op = "readline" /\ call.args[1]
     THEN Finish(IF YieldsBytes THEN Bytes(call.l) ELSE call.l, "none")
     ELSE IF YieldsBytes THEN Finish(<< >>, BytesFailure)
     ELSE IF starts_with_list(call.l, comment)
          THEN /\ call' = [call EXCEPT !.pc = "read"]
               /\ UNCHANGED <<pending, caller, ret>>
     ELSE IF call.op = "readline" THEN Finish(call.l, "none")
     ELSE /\ call' = [call EXCEPT !.pc = "test"]
          /\ UNCHANGED <<pending, caller, ret>>
  /\ UNCHANGED <<py, hs, viz, vret, nc, ncret, file, mode, disk, fh, depth, nopen>>

\* step_to and step_either after readline(): the test for '' and the
\* search of the line (lines 116-121, 132-141)
TestStep ==
  /\ call # NoCall
  /\ call.pc = "test"
  /\ LET j == FirstKey(call.l, call.args[1], call.args[2], 1)
     IN  IF call.l = Empty THEN Finish(<<FALSE, Empty>>, "none")
         ELSE IF call.op = "step_to" /\ line_has_key(call.l, call.args[1], call.args[2])
              THEN Finish(<<TRUE, call.l>>, "none")
         ELSE IF call.op = "step_either" /\ j >= 0
              THEN Finish(<<TRUE, j, call.l>>, "none")
         ELSE /\ call' = [call EXCEPT !.pc = "read"]
              /\ UNCHANGED <<pending, caller, ret>>
  /\ UNCHANGED <<py, hs, viz, vret, nc, ncret, file, mode, disk, fh, depth, nopen>>

\* the statements of a call in progress
LoopStep == ReadStep \/ SkipStep \/ TestStep

\* __enter__ on a handle that is not open, and __exit__, between calls
LoopEnter == call = NoCall /\ ~fh.open /\ Enter

LoopExit == call = NoCall /\ Exit

(* ------------------------------------------------------------ two handles *)

\* the most comment prefixes a handle is given
MaxPrefixes == 2

TwoPaths == {PathDat, PathGz}

Other(i) == 3 - i

\* a __setup in which every handle refers to one and the same list of prefixes
CommentRefShared(i) == 1

\* Sile.__setup: self._comment = ['#'] makes a list of its own for handle i
CommentRef(i) == i

\* Sile(path) as handle i
NewSile(i, path) ==
  [file |-> path, mode |-> InitMode(None), comment |-> CommentRef(i), fh |-> NoFh]

\* self._comment of handle i
Prefixes(i) == hs.lists[hs.sile[i].comment]

RECURSIVE SkipWith(_, _, _)
\* the while loop of readline with the prefixes of the handle
SkipWith(lines, r, prefixes) ==
  IF starts_with_list(r[1], prefixes)
  THEN SkipWith(lines, FhReadline(lines, r[2]), prefixes)
  ELSE r

RECURSIVE StepToWith(_, _, _, _, _)
\* the while loop of step_to with the prefixes of the handle
StepToWith(lines, pos, keyword, case, prefixes) ==
  LET r == SkipWith(lines, FhReadline(lines, pos), prefixes)
  IN  IF r[1] = Empty THEN [val |-> <<FALSE, Empty>>, pos |-> r[2]]
      ELSE IF line_has_key(r[1], keyword, case)
           THEN [val |-> <<TRUE, r[1]>>, pos |-> r[2]]
           ELSE StepToWith(lines, r[2], keyword, case, prefixes)

\* handle i has made a call: its new fields, the files, the result
Acts(i, s, lists, files, op, val, exc) ==
  /\ hs' = [sile |-> [hs.sile EXCEPT ![i] = s], lists |-> lists, disk |-> files]
  /\ ret' = [op |-> op, after |-> "", args |-> <<i>>, pos0 |-> hs.sile[i].fh.pos,
             val |-> val, exc |-> exc]
  /\ UNCHANGED <<py, viz, vret, file, mode, disk, fh, depth, nopen, pending, caller, call, nc, ncret>>

\* Sile.__enter__ of handle i
TwoEnter(i) ==
  LET s == hs.sile[i]
      gz == EndsWith(s.file, <<"g", "z">>)
      d == hs.disk[s.file]
      missing == ~d.exists /\ (gz \/ In(<<"r">>, s.mode))
      opened == [open |-> TRUE, gz |-> gz,
                 mode |-> IF gz THEN <<"r", "b">> ELSE s.mode, pos |-> 0]
  IN  IF missing
      THEN Acts(i, s, hs.lists, hs.disk, "__enter__", << >>, "IOError")
      ELSE Acts(i, [s EXCEPT !.fh = opened], hs.lists,
                IF ~gz /\ (In(<<"w">>, s.mode) \/ ~d.exists)
                THEN [hs.disk EXCEPT ![s.file] = OnDisk(Empty)] ELSE hs.disk,
                "__enter__", << >>, "none")

\* Sile.__exit__ of handle i
TwoExit(i) ==
  LET s == hs.sile[i]
  IN  IF s.fh.open
      THEN Acts(i, [s EXCEPT !.fh = NoFh], hs.lists, hs.disk, "__exit__", <<ExitReturn>>, "none")
      ELSE Acts(i, s, hs.lists, hs.disk, "__exit__", << >>, "AttributeError")

\* the failure of a read on the file object of handle i
TwoReadFailure(i) ==
  LET f == hs.sile[i].fh
  IN  IF ~f.open THEN "AttributeError"
      ELSE IF ~Readable(f.mode) THEN "IOError"
      ELSE IF py = 3 /\ In(<<"b">>, f.mode) THEN "TypeError"
      ELSE "none"

\* Sile.readline() and Sile.step_to('a') of handle i
TwoRead(i, op) ==
  LET s == hs.sile[i]
      lines == hs.disk[s.file].lines
      exc == TwoReadFailure(i)
      r == IF op = "readline"
           THEN LET l == SkipWith(lines, FhReadline(lines, s.fh.pos), Prefixes(i))
                IN  [val |-> l[1], pos |-> l[2]]
           ELSE StepToWith(lines, s.fh.pos, Str(KeyA), TRUE, Prefixes(i))
      pos == IF exc = "none" THEN r.pos
             ELSE IF exc = "TypeError" THEN FhReadline(lines, s.fh.pos)[2]
             ELSE s.fh.pos
  IN  Acts(i, [s EXCEPT !.fh.pos = pos], hs.lists, hs.disk, op,
           IF exc = "none" THEN r.val ELSE << >>, exc)

\* sile._mode = m
TwoSetMode(i) ==
  \E m \in {ModeR, ModeW} :
     Acts(i, [hs.sile[i] EXCEPT !.mode = m], hs.lists, hs.disk, "_mode", << >>, "none")

\* sile._comment.append('a')
TwoAppendComment(i) ==
  /\ Len(Prefixes(i)) < MaxPrefixes
  /\ Acts(i, hs.sile[i],
          [hs.lists EXCEPT ![hs.sile[i].comment] = Append(@, <<"a">>)], hs.disk,
          "_comment", << >>, "none")

(* ------------------------------------------------------------------ NCSile *)

\* the largest compression level given to NCSile(filename, mode, lvl)
MaxLvl == 1

\* the frames the interpreter allows before it raises its recursion error
RecursionLimit == 3

ClsSile == "Sile"
ClsNCSile == "NCSile"

\* no object of the classes below
NoNC == [cls |-> "none"]

\* a netCDF file without groups, dimensions and variables
EmptyDS == [groups |-> {}, dimensions |-> {}, variables |-> {}]

\* NCSile.__init__: lvl=0 when no level is given; lvlArgs is << >> or <<lvl>>
InitLvl(lvlArgs) == IF lvlArgs = << >> THEN 0 ELSE lvlArgs[1]

\* Sile(filename, mode) / NCSile(filename, mode, lvl), not entered, not
\* pickled; `given` keeps the level argument, ds is what the file holds
NewObject(cls, lvlArgs) ==
  [cls |-> cls, lvl |-> InitLvl(lvlArgs), given |-> lvlArgs, open |-> FALSE,
   dumped |-> FALSE, ds |-> EmptyDS]

\* the names in the __dict__ of the object after __init__ (and __enter__)
InstanceDict(o) ==
  {"file", "_mode"}
    \cup (IF o.cls = ClsNCSile THEN {"_lvl"} ELSE {"_comment"})
    \cup (IF o.open THEN {"fh"} ELSE {})

\* the names the class of the object (and object itself) defines
ClassAttrs(cls) ==
  {"__enter__", "__exit__", "_setup", "__reduce_ex__"}
    \cup (IF cls = ClsNCSile
          THEN {"__getattr__", "_cmp_args", "_crt_grp", "_crt_dim", "_crt_var"}
          ELSE {"readline", "step_to", "step_either", "line_has_key", "write", "_write"})

\* names a netCDF4.Dataset has
DatasetAttrs == {"variables", "createGroup", "close"}

\* the names looked up on an object
AttrNames == {"file", "fh", "variables", "createGroup", "nothing"}

PyNone == <<"None">>

\* getattr(fh, attr) on the open resource itself
getattr_raises(attr) ==
  IF attr \in DatasetAttrs THEN [val |-> <<"fh", attr>>, exc |-> "none"]
  ELSE [val |-> << >>, exc |-> "AttributeError"]

\* getattr(self.fh, attr, None) of NCSile.__getattr__
getattr_default(attr) ==
  IF attr \in DatasetAttrs THEN [val |-> <<"fh", attr>>, exc |-> "none"]
  ELSE [val |-> PyNone, exc |-> "none"]

RECURSIVE GetAttr(_, _, _, _)
\* obj.attr for an object of class cls whose __dict__ holds the names dict,
\* with n frames of __getattr__ on the stack: the normal lookup, then (NCSile)
\* __getattr__, which evaluates self.fh before it forwards
GetAttr(cls, dict, attr, n) ==
  IF attr \in dict \cup ClassAttrs(cls) THEN [val |-> <<"self", attr>>, exc |-> "none"]
  ELSE IF cls # ClsNCSile THEN [val |-> << >>, exc |-> "AttributeError"]
  ELSE IF n >= RecursionLimit THEN [val |-> << >>, exc |-> "RuntimeError"]
  ELSE LET f == GetAttr(cls, dict, "fh", n + 1)
       IN  IF f.exc # "none" THEN f ELSE getattr_default(attr)

NCResult(op, args, val, exc) ==
  [op |-> op, after |-> "", args |-> args, pos0 |-> 0, val |-> val, exc |-> exc]

\* NCSile.__enter__: netCDF4.Dataset(self.file, self._mode, format='NETCDF4')
NCEnter ==
  /\ nc.cls = ClsNCSile
  /\ \E created \in BOOLEAN :
       LET opens == disk.exists \/ In(<<"w">>, mode) \/ (In(<<"a">>, mode) /\ created)
       IN  /\ nc' = [nc EXCEPT !.open = opens \/ nc.open,
                                !.ds = IF opens /\ In(<<"w">>, mode) THEN EmptyDS ELSE @]
           /\ disk' = IF opens /\ (In(<<"w">>, mode) \/ ~disk.exists)
                      THEN OnDisk(Empty) ELSE disk
           /\ ncret' = NCResult("__enter__", << >>, << >>,
                                IF opens THEN "none" ELSE "IOError")
  /\ UNCHANGED <<py, hs, viz, vret, call, file, mode, fh, depth, nopen, pending, caller, ret>>

\* NCSile.__exit__
NCExit ==
  /\ nc.cls = ClsNCSile
  /\ LET f == GetAttr(nc.cls, InstanceDict(nc), "fh", 0)
     IN  /\ nc' = [nc EXCEPT !.open = FALSE]
         /\ ncret' = NCResult("__exit__", << >>,
                              IF f.exc = "none" THEN <<FALSE>> ELSE << >>, f.exc)
  /\ UNCHANGED <<py, hs, viz, vret, call, file, mode, disk, fh, depth, nopen, pending, caller, ret>>

\* a _cmp_args that enables compression at every level
cmp_args_always(lvl) == [zlib |-> TRUE, complevel |-> lvl]

\* NCSile._cmp_args
cmp_args(lvl) == [zlib |-> lvl > 0, complevel |-> lvl]

\* nc._cmp_args
CmpArgs ==
  /\ nc.cls = ClsNCSile
  /\ ncret' = NCResult("_cmp_args", << >>, cmp_args(nc.lvl), "none")
  /\ UNCHANGED <<py, hs, viz, vret, call, nc, file, mode, disk, fh, depth, nopen, pending, caller, ret>>

\* the names, dimension lengths and variable types given to the helpers
Names == {"g", "h"}
DimLens == {1, 2}
VarTypes == {"f8", "i4"}

\* name in n.groups / n.dimensions / n.variables; entries are <<name, argument>>
HasName(entries, name) == \E e \in entries : e[1] = name

Entry(entries, name) == CHOOSE e \in entries : e[1] = name

\* the dataset n was opened for writing
Writable == In(<<"w">>, mode) \/ In(<<"a">>, mode) \/ In(<<"+">>, mode)

\* the outcome of a helper: the dataset afterwards, the value returned, the
\* number of calls of the backend's create method, the exception
CrtOutcome(ds, val, creates) ==
  IF creates > 0 /\ ~Writable
  THEN [ds |-> nc.ds, val |-> [ret |-> << >>, creates |-> creates], exc |-> "RuntimeError"]
  ELSE [ds |-> ds, val |-> [ret |-> val, creates |-> creates], exc |-> "none"]

\* NCSile._crt_grp(n, name)
crt_grp(ds, name) ==
  IF name \in ds.groups THEN CrtOutcome(ds, <<"group", name>>, 0)
  ELSE CrtOutcome([ds EXCEPT !.groups = @ \cup {name}], <<"group", name>>, 1)

\* a _crt_dim without its test of n.dimensions: the dimension is set anew
crt_dim_always(ds, name, l) ==
  CrtOutcome([ds EXCEPT !.dimensions =
                {e \in @ : e[1] # name} \cup {<<name, l>>}], PyNone, 1)

\* NCSile._crt_dim(n, name, l)
crt_dim(ds, name, l) ==
  IF HasName(ds.dimensions, name) THEN CrtOutcome(ds, PyNone, 0)
  ELSE CrtOutcome([ds EXCEPT !.dimensions = @ \cup {<<name, l>>}], PyNone, 1)

\* NCSile._crt_var(n, name, *args, **kwargs)
crt_var(ds, name, type) ==
  IF HasName(ds.variables, name)
  THEN CrtOutcome(ds, <<"variable">> \o Entry(ds.variables, name), 0)
  ELSE CrtOutcome([ds EXCEPT !.variables = @ \cup {<<name, type>>}],
                  <<"variable", name, type>>, 1)

\* a helper called on the open dataset
Crt(op, args, r) ==
  /\ nc.cls = ClsNCSile
  /\ nc.open
  /\ nc' = [nc EXCEPT !.ds = r.ds]
  /\ ncret' = NCResult(op, args, r.val, r.exc)
  /\ UNCHANGED <<py, hs, viz, vret, call, file, mode, disk, fh, depth, nopen, pending, caller, ret>>

CrtGrp == \E name \in Names : Crt("_crt_grp", <<name>>, crt_grp(nc.ds, name))

CrtDim ==
  \E name \in Names, l \in DimLens :
     Crt("_crt_dim", <<name, l>>, crt_dim(nc.ds, name, l))

CrtVar ==
  \E name \in Names, type \in VarTypes :
     Crt("_crt_var", <<name, type>>, crt_var(nc.ds, name, type))

\* obj.attr
NCGetAttr ==
  /\ \E attr \in AttrNames :
       LET r == GetAttr(nc.cls, InstanceDict(nc), attr, 0)
       IN  ncret' = NCResult("getattr", <<attr>>, r.val, r.exc)
  /\ UNCHANGED <<py, hs, viz, vret, call, nc, file, mode, disk, fh, depth, nopen, pending, caller, ret>>

\* what the object keeps of its construction
State(o) == [file |-> file, mode |-> mode, lvl |-> o.lvl]

\* pickle.dump(sile, fh) of the test, on an object that is not open: the
\* state is the __dict__ unless obj.__getstate__ is found; object defines
\* __getstate__ in the newer Python 3 interpreters only
PickleDump ==
  /\ ~nc.open
  /\ \E objectGetstate \in (IF py = 3 THEN BOOLEAN ELSE {FALSE}) :
       LET r == IF objectGetstate THEN [val |-> <<"object", "__getstate__">>, exc |-> "none"]
                ELSE GetAttr(nc.cls, InstanceDict(nc), "__getstate__", 0)
           exc == IF r.exc = "AttributeError" THEN "none" ELSE r.exc
       IN  /\ nc' = [nc EXCEPT !.dumped = (exc = "none")]
           /\ ncret' = NCResult("dump", << >>, << >>, exc)
  /\ UNCHANGED <<py, hs, viz, vret, call, file, mode, disk, fh, depth, nopen, pending, caller, ret>>

\* pickle.load(fh) of the test: a new object of the class with an empty
\* __dict__, obj.__setstate__ looked up, the __dict__ updated if there is none
PickleLoad ==
  /\ nc.dumped
  /\ LET r == GetAttr(nc.cls, {}, "__setstate__", 0)
         exc == IF r.exc = "AttributeError" THEN "none" ELSE r.exc
     IN  ncret' = NCResult("load", << >>, IF exc = "none" THEN State(nc) ELSE << >>, exc)
  /\ UNCHANGED <<py, hs, viz, vret, call, nc, file, mode, disk, fh, depth, nopen, pending, caller, ret>>

(* ------------------------------------------------------ sisl.viz: presets *)

\* what is left alone by the plotting modules
Siles == <<py, file, mode, disk, fh, depth, nopen, pending, caller, ret, call, nc, ncret, hs>>

\* py = 3 (the modules use f-strings and {**a, **b}) and no Sile in use
NoSileInUse ==
  /\ py = 3
  /\ hs = NoSiles
  /\ call = NoCall
  /\ nc = NoNC
  /\ ncret = NoRet
  /\ file = PathDat
  /\ mode = ModeR
  /\ disk = Absent
  /\ fh = NoFh
  /\ depth = 0
  /\ nopen = 0
  /\ pending = "none"
  /\ caller = "none"
  /\ ret = NoRet

VizResult(op, args, val, exc) ==
  [op |-> op, after |-> "", args |-> args, pos0 |-> 0, val |-> val, exc |-> exc]

\* the built-in preset and two presets of a user
PresetDark == <<"sisl_dark", "#ccc", "2">>
PresetNames == {"dark", "light", "mine"}
UserPresets == {<<"p1">>, <<"p2">>}

\* the module global PRESETS as the module is imported
PRESETS0 == [n \in {"dark"} |-> PresetDark]

\* the keyword arguments of add_presets: a dict of presets by name
PresetDicts == UNION {[D -> UserPresets] : D \in SUBSET PresetNames}

\* {**a, **b} with the order of the two swapped: on a clash the entry of b is dropped
MergeFirstWins(a, b) ==
  [n \in DOMAIN a \cup DOMAIN b |-> IF n \in DOMAIN a THEN a[n] ELSE b[n]]

\* {**a, **b}
Merge(a, b) ==
  [n \in DOMAIN a \cup DOMAIN b |-> IF n \in DOMAIN b THEN b[n] ELSE a[n]]

\* dict.get(name, None)
DictGet(d, name) == IF name \in DOMAIN d THEN d[name] ELSE PyNone

\* add_presets(**presets)
AddPresets ==
  /\ \E presets \in PresetDicts :
       /\ viz' = [viz EXCEPT !.PRESETS = Merge(@, presets)]
       /\ vret' = VizResult("add_presets", <<presets>>, PyNone, "none")
  /\ UNCHANGED Siles

\* get_preset(name)
GetPreset ==
  /\ \E name \in PresetNames \cup {"never"} :
       vret' = VizResult("get_preset", <<name>>, DictGet(viz.PRESETS, name), "none")
  /\ UNCHANGED <<viz, Siles>>

(* ---------------------------------------------------- sisl.viz: plotables *)

\* a class C and an object o of class C, as the plotable of register_plotable
ClassC == "C"
ObjO == "o"
Holders == {ClassC, ObjO}

\* where getattr / hasattr look an attribute up: the object, then its class
Chain(h) == IF h = ObjO THEN <<ObjO, ClassC>> ELSE <<ClassC>>

\* the plot classes and what PlotClass.suffix() gives for them
PlotClasses == {"PlotA", "PlotB"}
Suffix(PlotClass) == IF PlotClass = "PlotA" THEN <<"a">> ELSE <<"b">>

\* f'plot{"_"+suffix if suffix else ""}'
PlotAttr(suffix) ==
  IF suffix = <<"a">> THEN "plot_a" ELSE IF suffix = <<"b">> THEN "plot_b" ELSE "plot"

\* the calls: <<plotable, all_instances, PlotClass, suffix, default>>
RegisterArgs ==
  {<<h, ai, pc, sfx, dflt>> :
     h \in Holders, ai \in BOOLEAN, pc \in PlotClasses,
     sfx \in {PyNone, <<"a">>}, dflt \in {"None", "True", "False"}}

\* hasattr(h, a)
VizHasAttr(attrs, h, a) == \E i \in DOMAIN Chain(h) : a \in DOMAIN attrs[Chain(h)[i]]

\* getattr(h, a) of an attribute that exists
VizGetAttr(attrs, h, a) ==
  LET i == CHOOSE i \in DOMAIN Chain(h) :
             /\ a \in DOMAIN attrs[Chain(h)[i]]
             /\ \A j \in 1..(i - 1) : a \notin DOMAIN attrs[Chain(h)[j]]
  IN  attrs[Chain(h)[i]][a]

\* setattr(h, a, v)
VizSetAttr(attrs, h, a, v) ==
  [attrs EXCEPT ![h] = [n \in DOMAIN @ \cup {a} |-> IF n = a THEN v ELSE @[n]]]

\* register_plotable(plotable, PlotClass, setting_key, suffix=..., default=...,
\* all_instances=...)
RegisterPlotable ==
  /\ \E a \in RegisterArgs :
       LET plotable == IF a[1] = ObjO /\ a[2] THEN ClassC ELSE a[1]
           is_first_register == ~VizHasAttr(viz.attrs, plotable, "_plot_funcs")
           plotattr_name == IF VizHasAttr(viz.attrs, plotable, "plot")
                            THEN "plot_sisl" ELSE "plot"
           a1 == IF is_first_register
                 THEN VizSetAttr(VizSetAttr(viz.attrs, plotable, "_plot_funcs", <<"dict">>),
                                 plotable, plotattr_name, <<"_plot_default">>)
                 ELSE viz.attrs
           suffix == IF a[4] = PyNone THEN Suffix(a[3]) ELSE a[4]
           a2 == IF a[5] = "True" \/ (a[5] = "None" /\ is_first_register)
                 THEN VizSetAttr(a1, plotable, "_plot_default_suffix", suffix)
                 ELSE a1
       IN  /\ viz' = [viz EXCEPT
                        !.attrs = VizSetAttr(a2, plotable, PlotAttr(suffix), <<"_plot", a[3]>>),
                        !.registered = @ \cup {plotable}]
           /\ vret' = VizResult("register_plotable", a, PyNone, "none")
  /\ UNCHANGED Siles

\* o.plot() / o.plot_sisl(): _plot_default without plot_suffix
PlotDefault ==
  /\ VizHasAttr(viz.attrs, ObjO, "_plot_funcs")
  /\ LET hasSuffix == VizHasAttr(viz.attrs, ObjO, "_plot_default_suffix")
         attr == PlotAttr(VizGetAttr(viz.attrs, ObjO, "_plot_default_suffix"))
     IN  vret' = IF hasSuffix /\ VizHasAttr(viz.attrs, ObjO, attr)
                 THEN VizResult("plot", << >>, VizGetAttr(viz.attrs, ObjO, attr), "none")
                 ELSE VizResult("plot", << >>, << >>, "AttributeError")
  /\ UNCHANGED <<viz, Siles>>

(* ------------------------------------------------- sisl.viz: entry points *)

\* the most calls of EntryPoints.register
MaxRegisters == 3

EntryNames == {"x", "y", "z"}
EntryFuncs == {"f", "g"}

\* the index of name among the keys of the dict d, 0 when it is no key
KeyIndex(d, name) ==
  IF \E i \in DOMAIN d : d[i][1] = name
  THEN CHOOSE i \in DOMAIN d : d[i][1] = name ELSE 0

\* d[name] = v on a dict kept as the sequence of its items in insertion order
DictSet(d, name, v) ==
  IF KeyIndex(d, name) = 0 THEN Append(d, <<name, v>>)
  ELSE [d EXCEPT ![KeyIndex(d, name)] = <<name, v>>]

\* list(d): the keys in insertion order
Keys(d) == [i \in DOMAIN d |-> d[i][1]]

\* EntryPoints.register(name, entry_point)
EntryRegister ==
  /\ Len(viz.default) < MaxRegisters
  /\ \E name \in EntryNames, func \in EntryFuncs :
       /\ viz' = [viz EXCEPT !.options = Append(@, [label |-> name, value |-> name]),
                             !.default = Append(@, name),
                             !.entry_points = DictSet(@, name, func)]
       /\ vret' = VizResult("register", <<name, func>>, PyNone, "none")
  /\ UNCHANGED Siles

\* EntryPoints.options
EntryOptions ==
  /\ vret' = VizResult("options", << >>, Keys(viz.entry_points), "none")
  /\ UNCHANGED <<viz, Siles>>

(* -------------------------------------------------------- specifications *)

\* Sile(filename, mode) on a file system holding one of `files` at filename
Constructed(pythons, paths, modeArgs, files) ==
  /\ py \in pythons
  /\ hs = NoSiles
  /\ viz = NoViz
  /\ vret = NoRet
  /\ call = NoCall
  /\ nc = NoNC
  /\ ncret = NoRet
  /\ file \in paths
  /\ \E m \in modeArgs :
       /\ mode = InitMode(m)
       /\ ret = [NoRet EXCEPT !.args = <<file, m>>]
  /\ disk \in files
  /\ fh = NoFh
  /\ depth = 0
  /\ nopen = 0
  /\ pending = "none"
  /\ caller = "none"

\* every path and mode, a few files
Init ==
  Constructed(Pythons, Paths, Modes \cup {None},
              {Absent, OnDisk(Empty), OnDisk(<<LComment, LAB, LBlank, LUpper>>)})

\* one plain path read, every file of the pool
InitScan ==
  Constructed({3}, {PathDat}, {None, ModeR},
              {OnDisk(lines) : lines \in Contents(MaxLines)})

\* the messages of the two SileErrors raised in this module
MsgWrite == <<"Writing to a read-only file not possible">>
MsgRead == <<"Reading a write-only file not possible">>

\* the obj of a SileError: none, the handle (as sile_raise_write and
\* sile_raise_read pass it), or the class of the handle
ObjNone == "None"
ObjSile == "Sile instance"
ObjClass == "Sile class"

\* obj.attr exists: an instance has the attributes __init__ and __enter__
\* assign and no __name__; a class has __name__ and no file
HasAttr(obj, attr) ==
  IF obj = ObjSile THEN attr \in {"file", "_mode", "_comment"} \/ (attr = "fh" /\ fh.open)
  ELSE IF obj = ObjClass THEN attr = "__name__"
  ELSE FALSE

\* SileError.__str__
SileError_str(value, obj) ==
  IF obj = ObjNone THEN [val |-> value \o <<" in ">>, exc |-> "none"]
  ELSE IF ~HasAttr(obj, "__name__") \/ ~HasAttr(obj, "file")
       THEN [val |-> << >>, exc |-> "AttributeError"]
       ELSE [val |-> value \o <<" in ", "Sile", "(">> \o file \o <<")">>, exc |-> "none"]

\* str(SileError(value, obj))
StrSileError ==
  /\ pending = "none"
  /\ \E value \in {MsgWrite, MsgRead}, obj \in {ObjNone, ObjSile, ObjClass} :
       LET r == SileError_str(value, obj)
       IN  /\ Outcome(r.exc)
           /\ ret' = Result("__str__", <<value, obj>>, r.val, r.exc)
  /\ UNCHANGED <<py, hs, viz, vret, call, nc, ncret, file, mode, disk, fh, depth, nopen>>

Next ==
  \/ Enter
  \/ Exit
  \/ Readline
  \/ ReadlineIOError
  \/ StepTo
  \/ StepEither
  \/ SileRaiseWrite
  \/ SileRaiseRead

Spec == Init /\ [][Next]_vars

\* the handle's scope, the two mode guards and the string form of their error
NextError ==
  \/ Enter
  \/ Exit
  \/ SileRaiseWrite
  \/ SileRaiseRead
  \/ StrSileError

SpecError == Init /\ [][NextError]_vars

SpecScan == InitScan /\ [][Next]_vars

\* a plain and a compressed path, read, every file of up to MaxLoopLines lines
InitLoop ==
  Constructed(Pythons, {PathDat, PathGz}, {ModeR},
              {OnDisk(lines) : lines \in Contents(MaxLoopLines)})

NextLoop ==
  \/ LoopEnter
  \/ LoopExit
  \/ CallBegin
  \/ ReadStep
  \/ SkipStep
  \/ TestStep

\* a call in progress goes on to its next statement
SpecLoop == InitLoop /\ [][NextLoop]_vars /\ WF_vars(LoopStep)

\* two handles, on the same path or on two paths, each file of two lines
InitTwo ==
  /\ py = 3
  /\ viz = NoViz
  /\ vret = NoRet
  /\ \E p1 \in TwoPaths, p2 \in TwoPaths :
       hs = [sile |-> <<NewSile(1, p1), NewSile(2, p2)>>,
             lists |-> <<comment, comment>>,
             disk |-> [p \in TwoPaths |-> OnDisk(<<LComment, LAB>>)]]
  /\ call = NoCall
  /\ nc = NoNC
  /\ ncret = NoRet
  /\ file = PathDat
  /\ mode = ModeR
  /\ disk = Absent
  /\ fh = NoFh
  /\ depth = 0
  /\ nopen = 0
  /\ pending = "none"
  /\ caller = "none"
  /\ ret = NoRet

NextTwo ==
  \E i \in {1, 2} :
     \/ TwoEnter(i)
     \/ TwoExit(i)
     \/ TwoRead(i, "readline")
     \/ TwoRead(i, "step_to")
     \/ TwoSetMode(i)
     \/ TwoAppendComment(i)

SpecTwo == InitTwo /\ [][NextTwo]_vars

\* sisl.viz._presets as imported
InitPresets ==
  /\ NoSileInUse
  /\ viz = [module |-> "_presets", PRESETS |-> PRESETS0]
  /\ vret = NoRet

NextPresets ==
  \/ AddPresets
  \/ GetPreset

SpecPresets == InitPresets /\ [][NextPresets]_vars

\* no plotable registered; the class has a plot method of its own or has none
InitPlotables ==
  /\ NoSileInUse
  /\ \E native \in BOOLEAN :
       viz = [module |-> "_plotables",
              attrs |-> [h \in Holders |->
                           IF h = ClassC /\ native
                           THEN [n \in {"plot"} |-> <<"native">>]
                           ELSE << >>],
              registered |-> {}]
  /\ vret = NoRet

NextPlotables ==
  \/ RegisterPlotable
  \/ PlotDefault

SpecPlotables == InitPlotables /\ [][NextPlotables]_vars

\* EntryPoints(plot_cls) with no entry point registered
InitEntryPoints ==
  /\ NoSileInUse
  /\ viz = [module |-> "_entry_points", options |-> << >>, default |-> << >>,
            entry_points |-> << >>]
  /\ vret = NoRet

NextEntryPoints ==
  \/ EntryRegister
  \/ EntryOptions

SpecEntryPoints == InitEntryPoints /\ [][NextEntryPoints]_vars

\* Sile(filename, mode) or NCSile(filename, mode, lvl), every path and mode
InitNC ==
  /\ py \in Pythons
  /\ hs = NoSiles
  /\ viz = NoViz
  /\ vret = NoRet
  /\ call = NoCall
  /\ nc \in {NewObject(ClsSile, << >>), NewObject(ClsNCSile, << >>)}
             \cup {NewObject(ClsNCSile, <<l>>) : l \in 0..MaxLvl}
  /\ ncret = NoRet
  /\ file \in Paths
  /\ mode \in {InitMode(m) : m \in Modes \cup {None}}
  /\ disk \in {Absent, OnDisk(Empty)}
  /\ fh = NoFh
  /\ depth = 0
  /\ nopen = 0
  /\ pending = "none"
  /\ caller = "none"
  /\ ret = NoRet

NextNC ==
  \/ NCEnter
  \/ NCExit
  \/ NCGetAttr
  \/ PickleDump
  \/ PickleLoad
  \/ CmpArgs

SpecNC == InitNC /\ [][NextNC]_vars

\* NCSile('f.dat', mode, lvl) on an existing file
InitCrt ==
  /\ py = 3
  /\ hs = NoSiles
  /\ viz = NoViz
  /\ vret = NoRet
  /\ call = NoCall
  /\ nc \in {NewObject(ClsNCSile, <<l>>) : l \in 0..MaxLvl}
  /\ ncret = NoRet
  /\ file = PathDat
  /\ mode \in Modes
  /\ disk = OnDisk(Empty)
  /\ fh = NoFh
  /\ depth = 0
  /\ nopen = 0
  /\ pending = "none"
  /\ caller = "none"
  /\ ret = NoRet

\* the helpers on the dataset of an NCSile
NextCrt ==
  \/ NCEnter
  \/ NCExit
  \/ CrtGrp
  \/ CrtDim
  \/ CrtVar

SpecCrt == InitCrt /\ [][NextCrt]_vars

(* ------------------------------------------------ lifecycle properties *)

\* C1: the write guard raises SileError exactly when the declared mode is
\* 'r', the read guard exactly when it is 'w', and neither raises for 'a'.
C1_ModeGuards ==
  /\ ret.op = "sile_raise_write" => (ret.exc = "SileError" <=> mode = ModeR)
  /\ ret.op = "sile_raise_read" => (ret.exc = "SileError" <=> mode = ModeW)
  /\ (ret.op \in {"sile_raise_write", "sile_raise_read"} /\ mode = ModeA)
       => ret.exc = "none"

C1_Witness ==
  /\ ret.op = "sile_raise_write"
  /\ mode = ModeA
  /\ ret.exc = "none"
  /\ fh.open

\* C2: the handle holds an open resource (fh) if and only if it is inside a
\* scoped-open region (entered and not yet exited).
C2_FhIffInScope == fh.open <=> depth > 0

\* C3: when an operation has failed inside the scoped-open region, leaving the
\* scope closes the file fh refers to and clears fh, as a normal exit does.
C3_ReleaseOnFailure ==
  [][(Exit /\ pending # "none")
       => /\ ~fh'.open
          /\ fh.open => nopen' = nopen - 1
          /\ depth' = depth - 1]_vars

C3_Witness ==
  /\ ret.op = "__exit__"
  /\ ret.args = <<"IOError">>
  /\ ret.exc = "none"
  /\ ~fh.open
  /\ nopen = 0
  /\ depth = 0

\* C4: a failure raised inside the scoped-open region is not swallowed by
\* __exit__: it goes on to the enclosing block or the caller, and by then fh
\* has been closed and cleared.
C4_FailurePropagatesAfterRelease ==
  [][(Exit /\ pending # "none")
       => /\ IF depth' = 0 THEN caller' # "none" ELSE pending' # "none"
          /\ fh.open => /\ (IF depth' = 0 THEN caller' ELSE pending') = pending
                        /\ nopen' = nopen - 1
          /\ ~fh'.open]_vars

C4_Witness ==
  /\ ret.op = "__exit__"
  /\ ret.args = <<"IOError">>
  /\ ret.exc = "none"
  /\ caller = "IOError"
  /\ depth = 0
  /\ ~fh.open
  /\ nopen = 0
  /\ mode = ModeR

(* ------------------------------------------------- scanning properties *)

\* k occurs in l as a contiguous substring
Sub(l, k) == \E i \in 0..(Len(l) - Len(k)) : \A n \in 1..Len(k) : l[i + n] = k[n]

IsComment(l) == starts_with_list(l, comment)

Fold(s, case) == IF case THEN s ELSE Lower(s)

MinOf(S) == CHOOSE i \in S : \A j \in S : i <= j

\* the candidate strings of a keyword argument
Candidates(keyword) ==
  IF keyword.isList THEN {keyword.v[i] : i \in DOMAIN keyword.v} ELSE {keyword.v}

\* line l matches the keyword argument
Matches(l, keyword, case) ==
  \E k \in Candidates(keyword) : Sub(Fold(l, case), Fold(k, case))

\* the non-comment lines after position p
NonCommentAfter(p) ==
  {i \in (p + 1)..Len(disk.lines) : ~IsComment(disk.lines[i])}

\* the non-comment lines after position p that match the keyword argument
HitsAfter(p, keyword, case) ==
  {i \in NonCommentAfter(p) : Matches(disk.lines[i], keyword, case)}

\* every reordering of a list
Perms(s) ==
  {[i \in DOMAIN s |-> s[f[i]]] :
     f \in {g \in [DOMAIN s -> DOMAIN s] : \A a, b \in DOMAIN s : g[a] = g[b] => a = b}}

\* C5: readline with comment skipping (comment=False, the default) returns
\* the first remaining non-comment line, never one that begins with a comment
\* prefix, whenever a non-comment line remains.
C5_ReadlineSkipsComments ==
  (/\ ret.op = "readline"
   /\ ret.exc = "none"
   /\ ret.args = <<FALSE>>
   /\ NonCommentAfter(ret.pos0) # {})
    => LET k == MinOf(NonCommentAfter(ret.pos0))
       IN  /\ \A i \in DOMAIN comment : ~StartsWith(ret.val, comment[i])
           /\ ret.val = disk.lines[k]
           /\ fh.pos = k

C5_Witness ==
  /\ ret.op = "readline"
  /\ ret.exc = "none"
  /\ ret.args = <<FALSE>>
  /\ ret.pos0 = 0
  /\ disk.lines = <<LComment, LComment, LAB>>
  /\ ret.val = LAB

\* C6 as claimed: on a fresh stream in which exactly one line contains the
\* keyword, step_to returns (True, that line); with no such line it returns
\* (False, '') with the stream consumed; in general it returns the first
\* non-comment line at or after the position that contains the keyword.
C6_Original ==
  (/\ ret.op = "step_to"
   /\ ret.exc = "none"
   /\ ~ret.args[1].isList
   /\ ret.args[2])
    => LET all == {i \in 1..Len(disk.lines) : Sub(disk.lines[i], ret.args[1].v)}
           hits == HitsAfter(ret.pos0, ret.args[1], TRUE)
       IN  /\ (ret.pos0 = 0 /\ Cardinality(all) = 1)
                => ret.val = <<TRUE, disk.lines[MinOf(all)]>>
           /\ (ret.pos0 = 0 /\ all = {})
                => ret.val = <<FALSE, Empty>> /\ fh.pos = Len(disk.lines)
           /\ hits # {} => ret.val = <<TRUE, disk.lines[MinOf(hits)]>>

\* C6 amended: on a fresh stream in which exactly one non-comment line
\* contains the keyword, step_to returns (True, that line); with no such
\* non-comment line it returns (False, '') with the stream consumed; in
\* general it returns the first non-comment line at or after the position that
\* contains the keyword.
C6_StepToFindsNonCommentLine ==
  (/\ ret.op = "step_to"
   /\ ret.exc = "none"
   /\ ~ret.args[1].isList
   /\ ret.args[2])
    => LET hits == HitsAfter(ret.pos0, ret.args[1], TRUE)
       IN  /\ (ret.pos0 = 0 /\ Cardinality(hits) = 1)
                => ret.val = <<TRUE, disk.lines[MinOf(hits)]>>
           /\ hits = {}
                => ret.val = <<FALSE, Empty>> /\ fh.pos = Len(disk.lines)
           /\ hits # {}
                => ret.val = <<TRUE, disk.lines[MinOf(hits)]>> /\ fh.pos = MinOf(hits)

C6_Witness ==
  /\ ret.op = "step_to"
  /\ ret.exc = "none"
  /\ ret.args = <<Str(KeyA), TRUE>>
  /\ ret.pos0 = 0
  /\ disk.lines = <<LComment, LUpper, LAB>>
  /\ ret.val = <<TRUE, LAB>>

\* C7: step_to is a consuming scan.  A call that finds a line leaves the
\* position just after that line, which lies after the position the call
\* started from and is not a comment line; a call that finds nothing leaves
\* the position at the end of the stream; at the end of the stream every call
\* finds nothing; and no operation on the open file object moves the position
\* back.  So a later call never returns a line at or before an earlier match,
\* and after one not-found every later call is not-found.  (A step is one of
\* step_to when it leaves ret.op = "step_to", of __enter__ when it leaves
\* ret.op = "__enter__".)
C7_ConsumingScan ==
  [][/\ (ret'.op = "step_to" /\ ret'.exc = "none")
          => /\ ret'.val[1]
                  => /\ fh'.pos > fh.pos
                     /\ ret'.val[2] = disk.lines[fh'.pos]
                     /\ ~IsComment(ret'.val[2])
             /\ ~ret'.val[1] => fh'.pos = Len(disk.lines)
             /\ fh.pos = Len(disk.lines) => ~ret'.val[1]
     /\ (fh.open /\ fh'.open /\ ret'.op # "__enter__") => fh'.pos >= fh.pos]_vars

C7_Witness ==
  /\ ret.op = "step_to"
  /\ ret.exc = "none"
  /\ ret.args = <<Str(KeyB), TRUE>>
  /\ disk.lines = <<LAB, LComment, LAB>>
  /\ ret.pos0 = 1
  /\ ret.val = <<TRUE, LAB>>
  /\ fh.pos = 3

\* C8: when the stream ends without a match, step_either returns the triple
\* (False, -1, '').
C8_NotFoundIsTriple ==
  (/\ ret.op = "step_either"
   /\ ret.exc = "none"
   /\ ~ret.val[1])
    => /\ Len(ret.val) = 3
       /\ ret.val[2] = -1
       /\ ret.val[3] = Empty

\* C9: step_either stops at the first non-comment line that some pattern
\* matches and reports the smallest index of a pattern matching that line.
C9_StepEitherSmallestIndex ==
  (/\ ret.op = "step_either"
   /\ ret.exc = "none"
   /\ ret.val[1])
    => LET keywords == ret.args[1]
           case == ret.args[2]
           hit(i) == {j \in DOMAIN keywords : Matches(disk.lines[i], keywords[j], case)}
           lines == {i \in NonCommentAfter(ret.pos0) : hit(i) # {}}
       IN  /\ lines # {}
           /\ fh.pos = MinOf(lines)
           /\ ret.val = <<TRUE, MinOf(hit(MinOf(lines))) - 1, disk.lines[MinOf(lines)]>>

C9_Witness ==
  /\ ret.op = "step_either"
  /\ ret.exc = "none"
  /\ ret.args = <<<<Str(KeyA), Str(KeyUpperB), Str(KeyB)>>, TRUE>>
  /\ ret.pos0 = 0
  /\ disk.lines = <<LComment, LBlank, LAB>>
  /\ ret.val = <<TRUE, 0, LAB>>

\* C10: step_to with a list of candidates finds the first non-comment line of
\* which at least one candidate is a substring, and finds the same line for
\* every reordering of the list.
C10_StepToListIsOr ==
  (/\ ret.op = "step_to"
   /\ ret.exc = "none"
   /\ ret.args[1].isList)
    => LET keyword == ret.args[1]
           case == ret.args[2]
           hits == HitsAfter(ret.pos0, keyword, case)
       IN  /\ ret.val = IF hits = {} THEN <<FALSE, Empty>>
                        ELSE <<TRUE, disk.lines[MinOf(hits)]>>
           /\ \A p \in Perms(keyword.v) :
                step_to(disk.lines, ret.pos0, List(p), case).val = ret.val

C10_Witness ==
  /\ ret.op = "step_to"
  /\ ret.exc = "none"
  /\ ret.args = <<List(<<KeyA, KeyUpperB>>), TRUE>>
  /\ ret.pos0 = 0
  /\ disk.lines = <<LComment, LUpper, LAB>>
  /\ ret.val = <<TRUE, LUpper>>

\* C11: with case=False the line and every candidate are lower-cased before
\* the substring test, so a keyword with capitals finds a lower-case line;
\* with case=True (the default) the test is on the strings as they are.
C11_CaseFolding ==
  (/\ ret.op = "step_to"
   /\ ret.exc = "none")
    => LET keyword == ret.args[1]
           lower(l) == [i \in DOMAIN l |-> IF l[i] = "B" THEN "b" ELSE l[i]]
           folded == {i \in NonCommentAfter(ret.pos0) :
                        \E k \in Candidates(keyword) :
                           Sub(lower(disk.lines[i]), lower(k))}
           exact == {i \in NonCommentAfter(ret.pos0) :
                       \E k \in Candidates(keyword) : Sub(disk.lines[i], k)}
           hits == IF ret.args[2] THEN exact ELSE folded
       IN  ret.val = IF hits = {} THEN <<FALSE, Empty>>
                     ELSE <<TRUE, disk.lines[MinOf(hits)]>>

C11_Witness ==
  /\ ret.op = "step_to"
  /\ ret.exc = "none"
  /\ ret.args = <<Str(KeyUpperB), FALSE>>
  /\ ret.pos0 = 0
  /\ disk.lines = <<LComment, LAB, LUpper>>
  /\ ret.val = <<TRUE, LAB>>

\* C12: at the end of the stream readline returns '' and does not raise, also
\* when only comment lines remain and they are skipped; step_to on such a
\* stream returns (False, '').
C12_EndOfStreamSentinel ==
  /\ (ret.op = "readline" /\ ret.exc = "none"
        /\ (IF ret.args[1] THEN ret.pos0 = Len(disk.lines)
            ELSE NonCommentAfter(ret.pos0) = {}))
       => ret.val = Empty /\ fh.pos = Len(disk.lines)
  /\ (ret.op = "readline" /\ ret.exc # "none")
       => \/ ret.exc = "AttributeError" /\ ~fh.open
          \/ ret.exc = "IOError" /\ fh.open
  /\ (ret.op = "step_to" /\ ret.exc = "none" /\ NonCommentAfter(ret.pos0) = {})
       => ret.val = <<FALSE, Empty>> /\ fh.pos = Len(disk.lines)

C12_Witness ==
  /\ ret.op = "readline"
  /\ ret.exc = "none"
  /\ ret.args = <<FALSE>>
  /\ disk.lines = <<LAB, LComment, LComment>>
  /\ ret.pos0 = 1
  /\ ret.val = Empty
  /\ fh.pos = 3

(* opening *)

\* C14: for every path and declared mode, __enter__ opens the file with
\* exactly the declared mode: 'r' opens an existing file and fails on an
\* absent one, 'w' creates or truncates, 'a' creates or opens for appending.
C14_OpensWithDeclaredMode ==
  ret.op = "__enter__"
    => IF ret.exc = "none"
       THEN /\ fh.open
            /\ \A m \in {"r", "w", "a"} : In(<<m>>, fh.mode) <=> In(<<m>>, mode)
            /\ disk.exists
            /\ In(<<"w">>, mode) => disk.lines = Empty
       ELSE /\ ret.exc = "IOError"
            /\ In(<<"r">>, mode)
            /\ ~disk.exists

\* C15: a path ending in '.gz' opened in read mode gives, through readline
\* and step_to, the same values and the same end-of-stream sentinel as the
\* uncompressed file of the same lines.
C15_GzSameLines ==
  (/\ ret.op \in {"readline", "step_to"}
   /\ EndsWith(file, <<".", "g", "z">>)
   /\ mode = ModeR
   /\ fh.open
   /\ ret.exc # "IOError")
    => /\ ret.exc = "none"
       /\ ret.val = IF ret.op = "readline"
                    THEN readline(disk.lines, ret.pos0, ret.args[1])[1]
                    ELSE step_to(disk.lines, ret.pos0, ret.args[1], ret.args[2]).val

\* C16: the file is opened through gzip if and only if the path ends with
\* '.gz'.
C16_GzipIffDotGz ==
  fh.open => (fh.gz <=> EndsWith(file, <<".", "g", "z">>))

\* C17: after __exit__, __enter__ succeeds again and gives a newly opened
\* file object at the start of the file; every __exit__ leaves the handle
\* without fh and closes the file it referred to; no operation changes the
\* path or the mode (the comment prefixes are set once by __setup).
C17_ReentryAfterExit ==
  [][/\ file' = file
     /\ mode' = mode
     /\ (ret'.op = "__enter__" /\ ret.op = "__exit__")
          => /\ ret'.exc = "none"
             /\ ~fh.open
             /\ fh'.open /\ fh'.pos = 0
             /\ nopen' = nopen + 1
     /\ ret'.op = "__exit__"
          => /\ ~fh'.open
             /\ depth' = depth - 1
             /\ fh.open => nopen' = nopen - 1]_vars

C17_Witness ==
  /\ ret.op = "__enter__"
  /\ ret.after = "__exit__"
  /\ ret.exc = "none"
  /\ fh.open /\ fh.pos = 0
  /\ depth = 1 /\ nopen = 1
  /\ disk.lines # Empty

(* the error object *)

\* C18: str() of a SileError is '<message> in <HandleType>(<path>)' when a
\* handle is attached and exactly the message when none is; it never fails.
C18_StringForm ==
  ret.op = "__str__"
    => /\ ret.exc = "none"
       /\ ret.val = IF ret.args[2] = ObjNone THEN ret.args[1]
                    ELSE ret.args[1] \o <<" in ", "Sile", "(">> \o file \o <<")">>

(* pickling and attribute forwarding *)

\* C19: a Sile or NCSile that was constructed and not opened is dumped and
\* loaded back by pickle without error, and the loaded object has the state
\* of the original.
C19_PickleRoundTrip ==
  /\ ncret.op = "dump" => ncret.exc = "none"
  /\ ncret.op = "load" => ncret.exc = "none" /\ ncret.val = State(nc)

\* C20 as stated: on an open NCSile, an attribute the handle does not define
\* has the outcome of the same access on the open resource.
C20_Original ==
  (/\ ncret.op = "getattr"
   /\ nc.cls = ClsNCSile
   /\ nc.open
   /\ ncret.args[1] \notin InstanceDict(nc) \cup ClassAttrs(nc.cls))
    => [val |-> ncret.val, exc |-> ncret.exc] = getattr_raises(ncret.args[1])

\* C20: on an open NCSile, an attribute the handle does not define has the
\* outcome of the same access on the open resource when the resource has
\* the attribute, and is None, without an exception, when it has not.
C20_ForwardsWithNoneDefault ==
  (/\ ncret.op = "getattr"
   /\ nc.cls = ClsNCSile
   /\ nc.open
   /\ ncret.args[1] \notin InstanceDict(nc) \cup ClassAttrs(nc.cls))
    => /\ ncret.exc = "none"
       /\ ncret.val = IF getattr_raises(ncret.args[1]).exc = "none"
                      THEN getattr_raises(ncret.args[1]).val
                      ELSE PyNone

C20_Witness ==
  /\ ncret.op = "getattr"
  /\ nc.cls = ClsNCSile
  /\ nc.open
  /\ ncret.args = <<"nothing">>
  /\ ncret.val = PyNone
  /\ ncret.exc = "none"

(* termination *)

\* C13: on every finite file, plain or compressed, a call of readline,
\* step_to or step_either ends; when it returns it has read on to the first
\* line it was looking for or to the end of the file, and returns what the
\* loop as a whole computes.
C13_LoopsTerminate ==
  /\ (call # NoCall) ~> (call = NoCall)
  /\ []((/\ call = NoCall
         /\ ret.op \in {"readline", "step_to", "step_either"}
         /\ ret.exc = "none"
         /\ ~YieldsBytes)
         => LET r == IF ret.op = "readline"
                     THEN [val |-> readline(disk.lines, ret.pos0, ret.args[1])[1],
                           pos |-> readline(disk.lines, ret.pos0, ret.args[1])[2]]
                     ELSE IF ret.op = "step_to"
                     THEN step_to(disk.lines, ret.pos0, ret.args[1], ret.args[2])
                     ELSE step_either(disk.lines, ret.pos0, ret.args[1], ret.args[2])
            IN  /\ ret.val = r.val
                /\ fh.pos = r.pos
                /\ (IF ret.op = "readline" THEN ret.val = Empty ELSE ~ret.val[1])
                     => fh.pos = Len(disk.lines))

C13_Witness ==
  /\ call = NoCall
  /\ ret.op = "step_to"
  /\ ret.exc = "none"
  /\ file = PathGz
  /\ disk.lines = <<LComment, LUpper>>
  /\ ret.pos0 = 0
  /\ ret.val = <<FALSE, Empty>>
  /\ fh.pos = 2

(* the empty keyword *)

\* C27: step_to('') returns (True, l) for the first non-comment line l not
\* yet read, and (False, '') on an empty file, without reading further than
\* that line or the end of the file.
C27_EmptyKeyword ==
  (/\ ret.op = "step_to"
   /\ ret.exc = "none"
   /\ ret.args[1] = Str(Empty))
    => IF NonCommentAfter(ret.pos0) # {}
       THEN /\ ret.val = <<TRUE, disk.lines[MinOf(NonCommentAfter(ret.pos0))]>>
            /\ fh.pos = MinOf(NonCommentAfter(ret.pos0))
       ELSE /\ ret.val = <<FALSE, Empty>>
            /\ fh.pos = Len(disk.lines)

C27_Witness ==
  /\ ret.op = "step_to"
  /\ ret.exc = "none"
  /\ ret.args = <<Str(Empty), TRUE>>
  /\ disk.lines = <<LComment, LBlank, LAB>>
  /\ ret.pos0 = 0
  /\ ret.val = <<TRUE, LBlank>>
  /\ fh.pos = 2

(* construction and nesting *)

\* C23: Sile(path, mode) opens nothing: the handle has no fh and no file
\* object exists; the path is the one given, the mode is the one given and
\* 'r' when none is given, and the comment prefixes are ['#'].
C23_ConstructionOpensNothing ==
  ret.op = "init"
    => /\ file = ret.args[1]
       /\ mode = IF ret.args[2] = None THEN ModeR ELSE ret.args[2]
       /\ comment = << <<"#">> >>
       /\ ~fh.open
       /\ nopen = 0
       /\ depth = 0

C23_Witness ==
  /\ ret.op = "init"
  /\ ret.args = <<PathDat, None>>
  /\ mode = ModeR
  /\ disk = Absent
  /\ fh = NoFh

\* C28: when the handle is entered again while it is open, every file it
\* opened is closed once both with blocks are left, and both __exit__ calls
\* return without an exception.
C28_NestedEntryLeaksNothing ==
  /\ depth = 0 => nopen = 0
  /\ ret.op = "__exit__" => ret.exc = "none"

(* NCSile: compression arguments and the get-or-create helpers *)

\* C22: _cmp_args is {zlib: lvl > 0, complevel: lvl} for the level lvl >= 0
\* given to NCSile(...), and zlib is off for an NCSile built without a level.
C22_CompressionArgs ==
  ncret.op = "_cmp_args"
    => /\ nc.given # << >>
            => ncret.val = [zlib |-> nc.given[1] > 0, complevel |-> nc.given[1]]
       /\ nc.given = << >> => ncret.val = [zlib |-> FALSE, complevel |-> 0]

C22_Witness ==
  /\ ncret.op = "_cmp_args"
  /\ nc.given = <<MaxLvl>>
  /\ ncret.val = [zlib |-> TRUE, complevel |-> MaxLvl]

\* C21: a helper called with a name that exists does not call the backend's
\* create method and leaves groups, dimensions and variables as they are
\* (returning the existing group or variable); with a new name it calls
\* create once and adds exactly the entry with the arguments given. So a
\* second call with the same name changes nothing.
C21_GetOrCreate ==
  [][(ncret'.op \in {"_crt_grp", "_crt_dim", "_crt_var"} /\ ncret'.exc = "none")
       => LET name == ncret'.args[1]
              kind == IF ncret'.op = "_crt_grp" THEN "groups"
                      ELSE IF ncret'.op = "_crt_dim" THEN "dimensions"
                      ELSE "variables"
              entry == IF kind = "groups" THEN name ELSE ncret'.args
              old == nc.ds[kind]
              exists == IF kind = "groups" THEN name \in old ELSE HasName(old, name)
          IN  /\ \A k \in {"groups", "dimensions", "variables"} \ {kind} :
                   nc'.ds[k] = nc.ds[k]
              /\ IF exists
                 THEN /\ nc'.ds = nc.ds
                      /\ ncret'.val.creates = 0
                      /\ kind = "variables"
                           => ncret'.val.ret = <<"variable">> \o Entry(old, name)
                 ELSE /\ nc'.ds[kind] = old \cup {entry}
                      /\ ncret'.val.creates = 1
                      /\ kind = "variables"
                           => ncret'.val.ret = <<"variable">> \o entry
              /\ kind = "groups" => ncret'.val.ret = <<"group", name>>
              /\ kind = "dimensions" => ncret'.val.ret = PyNone
              /\ IF kind = "groups" THEN name \in nc'.ds[kind]
                 ELSE HasName(nc'.ds[kind], name)]_vars

C21_Witness ==
  /\ ncret.op = "_crt_dim"
  /\ ncret.exc = "none"
  /\ ncret.args = <<"g", 2>>
  /\ ncret.val = [ret |-> PyNone, creates |-> 0]
  /\ nc.ds.dimensions = {<<"g", 1>>}

(* independent handles *)

\* what the claim lists of a handle: path, mode, comment prefixes, whether it
\* is open, and the position of its file object
View(i) ==
  [file |-> hs.sile[i].file, mode |-> hs.sile[i].mode, comment |-> Prefixes(i),
   open |-> hs.sile[i].fh.open, pos |-> hs.sile[i].fh.pos]

\* C24: an operation on one handle (enter, exit, readline, step_to, a new
\* mode, a further comment prefix) leaves the path, mode, comment prefixes,
\* open state and read position of the other handle as they were, also when
\* both are on the same path.
C24_HandlesIndependent ==
  [][\A i \in {1, 2} : ret'.args = <<i>> => View(Other(i))' = View(Other(i))]_vars

C24_Witness ==
  /\ hs.sile # << >>
  /\ hs.sile[1].file = hs.sile[2].file
  /\ ret.op = "_comment"
  /\ ret.args = <<1>>
  /\ Prefixes(1) = << <<"#">>, <<"a">> >>
  /\ Prefixes(2) = << <<"#">> >>
  /\ hs.sile[1].mode = ModeW
  /\ hs.sile[2].fh.open
  /\ hs.sile[2].fh.pos = 2
  /\ ~hs.sile[1].fh.open

(* sisl.viz *)

\* C25: after add_presets(name=p) get_preset(name) returns p, whatever was
\* registered under name before; the presets under every other name, 'dark'
\* included, are as they were; get_preset of a name never registered is None.
C25_Presets ==
  [][/\ vret'.op = "add_presets"
          => LET presets == vret'.args[1]
             IN  /\ \A n \in DOMAIN presets : DictGet(viz'.PRESETS, n) = presets[n]
                 /\ \A n \in (PresetNames \cup {"never"}) \ DOMAIN presets :
                      DictGet(viz'.PRESETS, n) = DictGet(viz.PRESETS, n)
     /\ vret'.op = "get_preset"
          => /\ viz' = viz
             /\ vret'.val = DictGet(viz.PRESETS, vret'.args[1])
             /\ vret'.args[1] = "never" => vret'.val = PyNone]_vars

C25_Witness ==
  /\ vret.op = "get_preset"
  /\ vret.args = <<"dark">>
  /\ vret.val = <<"p2">>
  /\ DictGet(viz.PRESETS, "light") = <<"p1">>
  /\ DictGet(viz.PRESETS, "mine") = PyNone

\* the default suffix h is seen to have, PyNone when it has none
DefaultSuffix(attrs, h) ==
  IF VizHasAttr(attrs, h, "_plot_default_suffix")
  THEN VizGetAttr(attrs, h, "_plot_default_suffix") ELSE PyNone

\* C26: a registration without `default` makes its suffix the default of
\* the plotable exactly when it is the first registration of that plotable,
\* and leaves the default as it is otherwise; default=True always makes its
\* suffix the default.
C26_DefaultOnFirstRegistration ==
  [][vret'.op = "register_plotable"
       => LET a == vret'.args
              plotable == IF a[1] = ObjO /\ a[2] THEN ClassC ELSE a[1]
              suffix == IF a[4] = PyNone THEN Suffix(a[3]) ELSE a[4]
              first == plotable \notin viz.registered
          IN  /\ (a[5] = "True" \/ (a[5] = "None" /\ first))
                   => DefaultSuffix(viz'.attrs, plotable) = suffix
              /\ (a[5] = "None" /\ ~first)
                   => DefaultSuffix(viz'.attrs, plotable) = DefaultSuffix(viz.attrs, plotable)]_vars

\* C29: a plotable that has been registered has a default suffix, and
\* plot_<suffix> for that suffix is a registered function, so plot() without
\* plot_suffix reaches a registered plotting function.
C29_DefaultDispatches ==
  /\ \A h \in viz.registered :
       /\ DefaultSuffix(viz.attrs, h) # PyNone
       /\ VizHasAttr(viz.attrs, h, PlotAttr(DefaultSuffix(viz.attrs, h)))
  /\ vret.op = "plot" => vret.exc = "none"

\* C30: the options and the default of the entry_point setting list every
\* registered name once, as EntryPoints.options does, and the function kept
\* for a name is the one registered last under it.
C30_EntryPointsListedOnce ==
  /\ [i \in DOMAIN viz.options |-> viz.options[i].value] = Keys(viz.entry_points)
  /\ viz.default = Keys(viz.entry_points)
  /\ \A i, j \in DOMAIN viz.default : viz.default[i] = viz.default[j] => i = j
  /\ vret.op = "register"
       => viz.entry_points[KeyIndex(viz.entry_points, vret.args[1])][2] = vret.args[2]
  /\ vret.op = "options" => vret.val = Keys(viz.entry_points)

====
